---- MODULE Spec2Model ----
(***************************************************************************)
(* The PostgreSQL thing repository of things/postgres/things.go as a state *)
(* machine.  The state is the committed content of the things table, the   *)
(* connections relation that RetrieveByChannel joins against, and a record *)
(* of the most recent repository call: its arguments, what it returned,    *)
(* the store calls it issued and how it left its transaction.              *)
(*                                                                         *)
(* The store itself (PostgreSQL behind sqlx) is not part of the            *)
(* repository; its behaviour is modelled from the persisted schema the     *)
(* specification gives: id is a uuid primary key, key is unique, metadata  *)
(* is a JSON column.                                                       *)
(***************************************************************************)
EXTENDS Integers, Sequences, FiniteSets, TLC

(***************************************************************************)
(* Bounds of the model.                                                    *)
(***************************************************************************)
\* longest batch handed to Save
MaxBatch == 2
\* largest LIMIT of a listing
MaxLimit == 2
\* largest OFFSET of a listing
MaxOffset == 2

(***************************************************************************)
(* Value domains.  Thing identifiers are integers so that ORDER BY id has  *)
(* an order to follow; 0 stands for a string that is not a UUID.           *)
(***************************************************************************)
ThingIDs == {1, 2}
IDs == {0} \cup ThingIDs
Owners == {"o1", "o2"}
Keys == {"k1", "k2", "k3"}
Channels == {"c1", "c2"}
ChannelArgs == Channels \cup {"not-a-uuid"}
\* a key longer than the key column takes
LongKey == "k-oversized"
KeyArgs == Keys \cup {LongKey}
\* the connections the channel subsystem makes and unmakes
ConnPairs == {<<1, "c1">>, <<2, "c1">>, <<2, "c2">>}

WellFormedID(id) == id \in Nat \ {0}

(***************************************************************************)
(* Errors.  errors.Wrap(kind, cause) is a chain with the kind in front;    *)
(* nil is the empty chain.  The tail of a chain is the cause a store call  *)
(* or the JSON codec reported.                                             *)
(***************************************************************************)
Nil == <<>>
Wrap(kind, err) == <<kind>> \o err
Kind(err) == IF err = Nil THEN "nil" ELSE Head(err)

ErrMalformedEntity == "ErrMalformedEntity"
ErrConflict == "ErrConflict"
ErrNotFound == "ErrNotFound"
ErrCreateEntity == "ErrCreateEntity"
ErrUpdateEntity == "ErrUpdateEntity"
ErrSelectEntity == "ErrSelectEntity"
ErrViewEntity == "ErrViewEntity"
ErrRemoveEntity == "ErrRemoveEntity"

errDuplicate == "unique_violation"
errFK == "foreign_key_violation"
errInvalid == "invalid_text_representation"
errTruncation == "string_data_right_truncation"

\* a *pq.Error carrying a code name, and errors that are not a *pq.Error
PqError(name) == <<"pq", name>>
IsPqError(err) == Len(err) = 2 /\ err[1] = "pq"
PqCodeName(err) == err[2]
ErrNoRows == <<"sql.ErrNoRows">>
DriverError == <<"driver">>
JSONError == <<"json">>

(***************************************************************************)
(* Metadata (map[string]interface{}) and its JSON form.  A Go map is nil   *)
(* or a set of <<key, Go type, text>> entries with distinct keys; a JSON   *)
(* document is null or an object whose members are listed in key order.    *)
(***************************************************************************)
NilMeta == [isNil |-> TRUE, kv |-> {}]
Meta(kv) == [isNil |-> FALSE, kv |-> kv]
LenMeta(m) == Cardinality(m.kv)

JSONNull == [kind |-> "null", members |-> <<>>]
JSONObject(members) == [kind |-> "object", members |-> members]

\* a JSON document that is neither null nor an object
JSONArray == [kind |-> "array", members |-> <<>>]

\* the keys in use, in the order encoding/json sorts them
KeyOrder == <<"c", "n", "region">>

\* encoding/json: a string is a JSON string, int and float64 are JSON
\* numbers, a chan has no encoding
Serializable(e) == e[2] \in {"string", "int", "float64"}
JSONMember(e) == <<e[1], IF e[2] = "string" THEN "string" ELSE "number", e[3]>>
\* a JSON number decodes into interface{} as float64
GoEntry(mem) == <<mem[1], IF mem[2] = "string" THEN "string" ELSE "float64", mem[3]>>

RECURSIVE MembersFrom(_, _)
MembersFrom(kv, i) ==
    IF i > Len(KeyOrder) THEN <<>>
    ELSE LET here == {e \in kv : e[1] = KeyOrder[i]}
         IN  (IF here = {} THEN <<>> ELSE <<JSONMember(CHOOSE e \in here : TRUE)>>)
             \o MembersFrom(kv, i + 1)

\* json.Marshal of a map[string]interface{}
Marshal(m) ==
    IF m.isNil THEN [err |-> Nil, data |-> JSONNull]
    ELSE IF \E e \in m.kv : ~Serializable(e)
         THEN [err |-> JSONError, data |-> JSONNull]
         ELSE [err |-> Nil, data |-> JSONObject(MembersFrom(m.kv, 1))]

\* json.Unmarshal into a nil map[string]interface{}
Unmarshal(doc) ==
    IF doc.kind = "null" THEN [err |-> Nil, meta |-> NilMeta]
    ELSE IF doc.kind = "object"
         THEN [err |-> Nil,
               meta |-> Meta({GoEntry(doc.members[i]) : i \in 1..Len(doc.members)})]
         ELSE [err |-> JSONError, meta |-> NilMeta]

(***************************************************************************)
(* things.Thing, dbThing and the conversions between them.                 *)
(***************************************************************************)
Thing(id, owner, name, key, meta) ==
    [ID |-> id, Owner |-> owner, Name |-> name, Key |-> key, Metadata |-> meta]
ZeroThing == Thing(0, "", <<>>, "", NilMeta)

dbThing(id, owner, name, key, data) ==
    [id |-> id, owner |-> owner, name |-> name, key |-> key, metadata |-> data]

\* toDBThing without the default: the metadata is marshalled as it is
toDBThingNoDefault(th) ==
    LET b == Marshal(th.Metadata)
    IN  IF b.err # Nil
        THEN [err |-> Wrap(ErrMalformedEntity, b.err),
              db |-> dbThing(0, "", <<>>, "", JSONNull)]
        ELSE [err |-> Nil, db |-> dbThing(th.ID, th.Owner, th.Name, th.Key, b.data)]

toDBThing(th) ==
    LET b == Marshal(th.Metadata)
    IN  IF LenMeta(th.Metadata) > 0 /\ b.err # Nil
        THEN [err |-> Wrap(ErrMalformedEntity, b.err),
              db |-> dbThing(0, "", <<>>, "", JSONNull)]
        ELSE [err |-> Nil,
              db |-> dbThing(th.ID, th.Owner, th.Name, th.Key,
                             IF LenMeta(th.Metadata) > 0 THEN b.data
                             ELSE JSONObject(<<>>))]

toThing(dbth) ==
    LET u == Unmarshal(dbth.metadata)
    IN  IF u.err # Nil
        THEN [err |-> Wrap(ErrMalformedEntity, u.err), th |-> ZeroThing]
        ELSE [err |-> Nil,
              th |-> Thing(dbth.id, dbth.owner, dbth.name, dbth.key, u.meta)]

(***************************************************************************)
(* The store.  The constraints are those of the persisted schema: id is a  *)
(* uuid column and the primary key, key carries a unique index.  A         *)
(* statement whose id parameter is not a UUID is rejected with             *)
(* invalid_text_representation whatever the table holds.                   *)
(***************************************************************************)
InvalidUUID(id) == ~WellFormedID(id)
UniqueViolation(tbl, row) == \E r \in tbl : r.id = row.id \/ r.key = row.key
\* the unique index on key, for a row whose key is being changed
KeyTaken(tbl, row, key) == \E o \in tbl \ {row} : o.key = key

\* a value longer than its column takes is rejected with
\* string_data_right_truncation
Oversized(key) == key = LongKey

\* an insert waits while a transaction that has not ended holds a row with
\* the same id or the same key
Locked(rows, d) == \E r \in rows : r.id = d.id \/ r.key = d.key

\* an insert sent outside the transaction: the row is committed at once
AutocommitInsert(committed, d) == committed \cup {d}

\* what tx.NamedExecContext adds to the committed table, the one the
\* statements of other callers read: nothing before the commit
TxInsert(committed, d) == committed

\* what every store call reports when the fault strikes it
Failing(fault, call) == fault = call

\* INSERT INTO things (id, owner, name, key, metadata) VALUES (...)
ExecInsert(tbl, d) ==
    IF InvalidUUID(d.id) THEN [err |-> PqError(errInvalid), tbl |-> tbl, n |-> 0]
    ELSE IF Oversized(d.key) THEN [err |-> PqError(errTruncation), tbl |-> tbl, n |-> 0]
    ELSE IF UniqueViolation(tbl, d)
         THEN [err |-> PqError(errDuplicate), tbl |-> tbl, n |-> 0]
         ELSE [err |-> Nil, tbl |-> tbl \cup {d}, n |-> 1]

\* the UPDATE of Update setting the key of the Thing as well
ExecUpdateWithKey(tbl, d) ==
    LET hit == {r \in tbl : r.owner = d.owner /\ r.id = d.id}
    IN  IF InvalidUUID(d.id) THEN [err |-> PqError(errInvalid), tbl |-> tbl, n |-> 0]
        ELSE [err |-> Nil,
              tbl |-> (tbl \ hit) \cup
                      {[r EXCEPT !.name = d.name, !.metadata = d.metadata, !.key = d.key] :
                           r \in hit},
              n |-> Cardinality(hit)]

\* UPDATE things SET name = :name, metadata = :metadata
\*   WHERE owner = :owner AND id = :id
ExecUpdate(tbl, d) ==
    LET hit == {r \in tbl : r.owner = d.owner /\ r.id = d.id}
    IN  IF InvalidUUID(d.id) THEN [err |-> PqError(errInvalid), tbl |-> tbl, n |-> 0]
        ELSE [err |-> Nil,
              tbl |-> (tbl \ hit) \cup
                      {[r EXCEPT !.name = d.name, !.metadata = d.metadata] : r \in hit},
              n |-> Cardinality(hit)]

\* UPDATE things SET key = :key WHERE owner = :owner AND id = :id
ExecUpdateKey(tbl, d) ==
    LET hit == {r \in tbl : r.owner = d.owner /\ r.id = d.id}
    IN  IF InvalidUUID(d.id) THEN [err |-> PqError(errInvalid), tbl |-> tbl, n |-> 0]
        ELSE IF hit # {} /\ Oversized(d.key)
             THEN [err |-> PqError(errTruncation), tbl |-> tbl, n |-> 0]
        ELSE IF \E r \in hit : KeyTaken(tbl, r, d.key)
             THEN [err |-> PqError(errDuplicate), tbl |-> tbl, n |-> 0]
             ELSE [err |-> Nil,
                   tbl |-> (tbl \ hit) \cup {[r EXCEPT !.key = d.key] : r \in hit},
                   n |-> Cardinality(hit)]

\* the DELETE without its owner predicate
ExecDeleteAnyOwner(tbl, d) ==
    IF InvalidUUID(d.id) THEN [err |-> PqError(errInvalid), tbl |-> tbl, n |-> 0]
    ELSE [err |-> Nil, tbl |-> {r \in tbl : r.id # d.id},
          n |-> Cardinality({r \in tbl : r.id = d.id})]

\* DELETE FROM things WHERE id = :id AND owner = :owner
ExecDelete(tbl, d) ==
    LET hit == {r \in tbl : r.id = d.id /\ r.owner = d.owner}
    IN  IF InvalidUUID(d.id) THEN [err |-> PqError(errInvalid), tbl |-> tbl, n |-> 0]
        ELSE [err |-> Nil, tbl |-> tbl \ hit, n |-> Cardinality(hit)]

\* ORDER BY id
RECURSIVE OrderByID(_)
OrderByID(rows) ==
    IF rows = {} THEN <<>>
    ELSE LET first == CHOOSE r \in rows : \A o \in rows : r.id <= o.id
         IN  <<first>> \o OrderByID(rows \ {first})

\* a window that starts one row late
LimitOffsetLate(s, limit, offset) ==
    SubSeq(s, offset + 2, IF offset + limit + 1 < Len(s) THEN offset + limit + 1 ELSE Len(s))

\* LIMIT :limit OFFSET :offset
LimitOffset(s, limit, offset) ==
    SubSeq(s, offset + 1, IF offset + limit < Len(s) THEN offset + limit ELSE Len(s))

(***************************************************************************)
(* What a repository call returns, together with the table it leaves       *)
(* committed, the store calls it issued in order, and the state in which   *)
(* it left the transaction it began.                                       *)
(***************************************************************************)
Result(err, tbl, out, id, total, calls, tx) ==
    [err |-> err, tbl |-> tbl, out |-> out, id |-> id, total |-> total,
     calls |-> calls, tx |-> tx]

\* the error switch of Save without its case for a duplicate
SaveErrorNoDuplicate(err) ==
    IF IsPqError(err) /\ PqCodeName(err) \in {errInvalid, errTruncation}
    THEN Wrap(ErrMalformedEntity, err)
    ELSE Wrap(ErrCreateEntity, err)

SaveError(err) ==
    IF IsPqError(err) /\ PqCodeName(err) \in {errInvalid, errTruncation}
    THEN Wrap(ErrMalformedEntity, err)
    ELSE IF IsPqError(err) /\ PqCodeName(err) = errDuplicate
         THEN Wrap(ErrConflict, err)
         ELSE Wrap(ErrCreateEntity, err)

\* the loop over the batch; view is the table as the transaction sees it
RECURSIVE SaveLoop(_, _, _, _)
SaveLoop(view, ths, fault, calls) ==
    IF ths = <<>> THEN [err |-> Nil, view |-> view, calls |-> calls, tx |-> "open"]
    ELSE LET c == toDBThing(Head(ths))
             ins == IF Failing(fault, "exec")
                    THEN [err |-> DriverError, tbl |-> view, n |-> 0]
                    ELSE ExecInsert(view, c.db)
         IN  IF c.err # Nil
             THEN [err |-> Wrap(ErrCreateEntity, c.err), view |-> view,
                   calls |-> calls, tx |-> "open"]
             ELSE IF ins.err # Nil
                  THEN [err |-> SaveError(ins.err), view |-> view,
                        calls |-> calls \o <<"exec", "rollback">>, tx |-> "rolledback"]
                  ELSE SaveLoop(ins.tbl, Tail(ths), fault, calls \o <<"exec">>)

\* Save with its inserts run outside a transaction
SaveNoTx(tbl, ths, fault) ==
    IF Failing(fault, "begin")
    THEN Result(Wrap(ErrCreateEntity, DriverError), tbl, <<>>, 0, 0, <<"begin">>, "none")
    ELSE LET l == SaveLoop(tbl, ths, fault, <<"begin">>)
         IN  IF l.err # Nil THEN Result(l.err, l.view, <<>>, 0, 0, l.calls, l.tx)
             ELSE Result(Nil, l.view, ths, 0, 0, l.calls \o <<"commit">>, "committed")

Save(tbl, ths, fault) ==
    IF Failing(fault, "begin")
    THEN Result(Wrap(ErrCreateEntity, DriverError), tbl, <<>>, 0, 0, <<"begin">>, "none")
    ELSE LET l == SaveLoop(tbl, ths, fault, <<"begin">>)
         IN  IF l.err # Nil THEN Result(l.err, tbl, <<>>, 0, 0, l.calls, l.tx)
             ELSE IF Failing(fault, "commit")
                  THEN Result(Wrap(ErrCreateEntity, DriverError), tbl, <<>>, 0, 0,
                              l.calls \o <<"commit">>, "aborted")
                  ELSE Result(Nil, l.view, ths, 0, 0, l.calls \o <<"commit">>, "committed")

\* res.RowsAffected(): the count of the statement, or an error with no count
RowsAffected(res, fault) ==
    IF Failing(fault, "rows") THEN [n |-> 0, err |-> DriverError]
    ELSE [n |-> res.n, err |-> Nil]

\* Update without the test of the count: no error once the statement has run
UpdateNoCount(tbl, t, fault) ==
    LET c == toDBThing(t)
        res == IF Failing(fault, "exec")
               THEN [err |-> DriverError, tbl |-> tbl, n |-> 0]
               ELSE ExecUpdate(tbl, c.db)
    IN  IF c.err # Nil
        THEN Result(Wrap(ErrUpdateEntity, c.err), tbl, <<>>, 0, 0, <<>>, "none")
        ELSE IF res.err # Nil
             THEN Result(IF IsPqError(res.err)
                            /\ PqCodeName(res.err) \in {errInvalid, errTruncation}
                         THEN Wrap(ErrMalformedEntity, res.err)
                         ELSE Wrap(ErrUpdateEntity, res.err),
                         tbl, <<>>, 0, 0, <<"exec">>, "none")
             ELSE Result(Nil, res.tbl, <<>>, 0, 0, <<"exec", "rows">>, "none")

\* the count's error is assigned to errdb and the test reads err, which is
\* nil once toDBThing has succeeded: the error is never looked at
Update(tbl, t, fault) ==
    LET c == toDBThing(t)
        res == IF Failing(fault, "exec")
               THEN [err |-> DriverError, tbl |-> tbl, n |-> 0]
               ELSE ExecUpdate(tbl, c.db)
        cnt == RowsAffected(res, fault)
    IN  IF c.err # Nil
        THEN Result(Wrap(ErrUpdateEntity, c.err), tbl, <<>>, 0, 0, <<>>, "none")
        ELSE IF res.err # Nil
             THEN Result(IF IsPqError(res.err)
                            /\ PqCodeName(res.err) \in {errInvalid, errTruncation}
                         THEN Wrap(ErrMalformedEntity, res.err)
                         ELSE Wrap(ErrUpdateEntity, res.err),
                         tbl, <<>>, 0, 0, <<"exec">>, "none")
             ELSE IF c.err # Nil
                  THEN Result(Wrap(ErrUpdateEntity, cnt.err), res.tbl, <<>>, 0, 0,
                              <<"exec", "rows">>, "none")
                  ELSE IF cnt.n = 0
                       THEN Result(<<ErrNotFound>>, res.tbl, <<>>, 0, 0,
                                   <<"exec", "rows">>, "none")
                       ELSE Result(Nil, res.tbl, <<>>, 0, 0, <<"exec", "rows">>, "none")

\* UpdateKey with the error switch of Update: no case for a duplicate
UpdateKeyNoConflict(tbl, owner, id, key, fault) ==
    LET dbth == dbThing(id, owner, <<>>, key, JSONNull)
        res == IF Failing(fault, "exec")
               THEN [err |-> DriverError, tbl |-> tbl, n |-> 0]
               ELSE ExecUpdateKey(tbl, dbth)
        cnt == RowsAffected(res, fault)
    IN  IF res.err # Nil
        THEN Result(IF IsPqError(res.err) /\ PqCodeName(res.err) = errInvalid
                    THEN Wrap(ErrMalformedEntity, res.err)
                    ELSE Wrap(ErrUpdateEntity, res.err),
                    tbl, <<>>, 0, 0, <<"exec">>, "none")
        ELSE IF cnt.err # Nil
             THEN Result(Wrap(ErrUpdateEntity, cnt.err), res.tbl, <<>>, 0, 0,
                         <<"exec", "rows">>, "none")
             ELSE IF cnt.n = 0
                  THEN Result(<<ErrNotFound>>, res.tbl, <<>>, 0, 0,
                              <<"exec", "rows">>, "none")
                  ELSE Result(Nil, res.tbl, <<>>, 0, 0, <<"exec", "rows">>, "none")

UpdateKey(tbl, owner, id, key, fault) ==
    LET dbth == dbThing(id, owner, <<>>, key, JSONNull)
        res == IF Failing(fault, "exec")
               THEN [err |-> DriverError, tbl |-> tbl, n |-> 0]
               ELSE ExecUpdateKey(tbl, dbth)
        cnt == RowsAffected(res, fault)
    IN  IF res.err # Nil
        THEN Result(IF IsPqError(res.err) /\ PqCodeName(res.err) = errInvalid
                    THEN Wrap(ErrMalformedEntity, res.err)
                    ELSE IF IsPqError(res.err) /\ PqCodeName(res.err) = errDuplicate
                         THEN Wrap(ErrConflict, res.err)
                         ELSE Wrap(ErrUpdateEntity, res.err),
                    tbl, <<>>, 0, 0, <<"exec">>, "none")
        ELSE IF cnt.err # Nil
             THEN Result(Wrap(ErrUpdateEntity, cnt.err), res.tbl, <<>>, 0, 0,
                         <<"exec", "rows">>, "none")
             ELSE IF cnt.n = 0
                  THEN Result(<<ErrNotFound>>, res.tbl, <<>>, 0, 0,
                              <<"exec", "rows">>, "none")
                  ELSE Result(Nil, res.tbl, <<>>, 0, 0, <<"exec", "rows">>, "none")

\* the SELECT of RetrieveByID without its owner predicate
QueryByIDAnyOwner(tbl, owner, id) ==
    IF InvalidUUID(id) THEN [err |-> PqError(errInvalid), rows |-> {}]
    ELSE LET hit == {r \in tbl : r.id = id}
         IN  IF hit = {} THEN [err |-> ErrNoRows, rows |-> {}]
             ELSE [err |-> Nil, rows |-> hit]

\* SELECT name, key, metadata FROM things WHERE id = $1 AND owner = $2
QueryByID(tbl, owner, id) ==
    IF InvalidUUID(id) THEN [err |-> PqError(errInvalid), rows |-> {}]
    ELSE LET hit == {r \in tbl : r.id = id /\ r.owner = owner}
         IN  IF hit = {} THEN [err |-> ErrNoRows, rows |-> {}]
             ELSE [err |-> Nil, rows |-> hit]

RetrieveByID(tbl, owner, id, fault) ==
    LET q == IF Failing(fault, "query") THEN [err |-> DriverError, rows |-> {}]
             ELSE QueryByID(tbl, owner, id)
    IN  IF q.err # Nil
        THEN Result(IF q.err = ErrNoRows
                       \/ (IsPqError(q.err) /\ errInvalid = PqCodeName(q.err))
                    THEN Wrap(ErrNotFound, q.err)
                    ELSE Wrap(ErrSelectEntity, q.err),
                    tbl, <<>>, 0, 0, <<"query">>, "none")
        ELSE LET r == CHOOSE r \in q.rows : TRUE
                 t == toThing(dbThing(id, owner, r.name, r.key, r.metadata))
             IN  IF t.err # Nil THEN Result(t.err, tbl, <<>>, 0, 0, <<"query">>, "none")
                 ELSE Result(Nil, tbl, <<t.th>>, 0, 0, <<"query">>, "none")

\* SELECT id FROM things WHERE key = $1
QueryByKey(tbl, key) ==
    LET hit == {r \in tbl : r.key = key}
    IN  IF hit = {} THEN [err |-> ErrNoRows, rows |-> {}] ELSE [err |-> Nil, rows |-> hit]

\* RetrieveByKey without the test for sql.ErrNoRows
RetrieveByKeyNoRowsCase(tbl, key, fault) ==
    LET q == IF Failing(fault, "query") THEN [err |-> DriverError, rows |-> {}]
             ELSE QueryByKey(tbl, key)
    IN  IF q.err # Nil
        THEN Result(Wrap(ErrSelectEntity, q.err), tbl, <<>>, 0, 0, <<"query">>, "none")
        ELSE Result(Nil, tbl, <<>>, (CHOOSE r \in q.rows : TRUE).id, 0, <<"query">>, "none")

RetrieveByKey(tbl, key, fault) ==
    LET q == IF Failing(fault, "query") THEN [err |-> DriverError, rows |-> {}]
             ELSE QueryByKey(tbl, key)
    IN  IF q.err # Nil
        THEN Result(IF q.err = ErrNoRows THEN Wrap(ErrNotFound, q.err)
                    ELSE Wrap(ErrSelectEntity, q.err),
                    tbl, <<>>, 0, 0, <<"query">>, "none")
        ELSE Result(Nil, tbl, <<>>, (CHOOSE r \in q.rows : TRUE).id, 0, <<"query">>, "none")

\* Remove reporting a delete that matched nothing as NotFound
RemoveStrict(tbl, owner, id, fault) ==
    LET dbth == dbThing(id, owner, <<>>, "", JSONNull)
        res == IF Failing(fault, "exec")
               THEN [err |-> DriverError, tbl |-> tbl, n |-> 0]
               ELSE ExecDelete(tbl, dbth)
    IN  IF res.err # Nil
        THEN Result(Wrap(ErrRemoveEntity, res.err), tbl, <<>>, 0, 0, <<"exec">>, "none")
        ELSE IF res.n = 0
             THEN Result(<<ErrNotFound>>, res.tbl, <<>>, 0, 0, <<"exec">>, "none")
             ELSE Result(Nil, res.tbl, <<>>, 0, 0, <<"exec">>, "none")

Remove(tbl, owner, id, fault) ==
    LET dbth == dbThing(id, owner, <<>>, "", JSONNull)
        res == IF Failing(fault, "exec")
               THEN [err |-> DriverError, tbl |-> tbl, n |-> 0]
               ELSE ExecDelete(tbl, dbth)
    IN  IF res.err # Nil
        THEN Result(Wrap(ErrRemoveEntity, res.err), tbl, <<>>, 0, 0, <<"exec">>, "none")
        ELSE Result(Nil, res.tbl, <<>>, 0, 0, <<"exec">>, "none")

(***************************************************************************)
(* The predicate builders of the listing query.  A fragment is "" (no      *)
(* clause) or names the clause it adds to the WHERE; the bound value is    *)
(* the pattern or the encoded filter.                                      *)
(***************************************************************************)
\* name LIKE '%pattern%': the pattern occurs in the stored name
NameMatches(stored, pattern) ==
    \E i \in 1..(Len(stored) + 1) :
        /\ i + Len(pattern) - 1 <= Len(stored)
        /\ SubSeq(stored, i, i + Len(pattern) - 1) = pattern

\* metadata @> filter: every member of the filter is a member of the document
Contains(doc, filter) ==
    \A i \in 1..Len(filter.members) :
        \E j \in 1..Len(doc.members) : doc.members[j] = filter.members[i]

getNameQuery(name) ==
    IF name = <<>> THEN [nq |-> "", name |-> name]
    ELSE [nq |-> "AND name LIKE :name", name |-> name]

getMetadataQuery(m) ==
    LET b == Marshal(m)
    IN  IF LenMeta(m) > 0
        THEN IF b.err # Nil THEN [err |-> b.err, mq |-> "", m |-> JSONNull]
             ELSE [err |-> Nil, mq |-> "AND metadata @> :metadata", m |-> b.data]
        ELSE [err |-> Nil, mq |-> "", m |-> JSONObject(<<>>)]

\* one fragment of a WHERE clause, evaluated on a row
Clause(frag, row, params) ==
    IF frag = "" THEN TRUE
    ELSE IF frag = "AND name LIKE :name" THEN NameMatches(row.name, params.name)
         ELSE Contains(row.metadata, params.metadata)

\* the page query with the metadata fragment alone
QueryAllNoName(tbl, mq, nq, params) ==
    LimitOffset(
        OrderByID({r \in tbl : r.owner = params.owner /\ Clause(mq, r, params)}),
        params.limit, params.offset)

\* SELECT id, name, key, metadata FROM things
\*   WHERE owner = :owner %s%s ORDER BY id LIMIT :limit OFFSET :offset   (mq, nq)
QueryAll(tbl, mq, nq, params) ==
    LimitOffset(
        OrderByID({r \in tbl : r.owner = params.owner
                               /\ Clause(mq, r, params) /\ Clause(nq, r, params)}),
        params.limit, params.offset)

\* SELECT COUNT(*) FROM things WHERE owner = :owner %s%s   (nq, mq)
total(tbl, nq, mq, params) ==
    Cardinality({r \in tbl : r.owner = params.owner
                             /\ Clause(nq, r, params) /\ Clause(mq, r, params)})

\* the scan loop of both listings: every row into a dbThing that already
\* carries the owner argument, then toThing
RECURSIVE ScanItems(_, _)
ScanItems(rows, owner) ==
    IF rows = <<>> THEN [err |-> Nil, items |-> <<>>]
    ELSE LET r == Head(rows)
             t == toThing(dbThing(r.id, owner, r.name, r.key, r.metadata))
             rest == ScanItems(Tail(rows), owner)
         IN  IF t.err # Nil THEN [err |-> Wrap(ErrViewEntity, t.err), items |-> <<>>]
             ELSE IF rest.err # Nil THEN rest
                  ELSE [err |-> Nil, items |-> <<t.th>> \o rest.items]

RetrieveAll(tbl, owner, offset, limit, name, tm, fault) ==
    LET n == getNameQuery(name)
        m == getMetadataQuery(tm)
        params == [owner |-> owner, limit |-> limit, offset |-> offset,
                   name |-> n.name, metadata |-> m.m]
        scan == ScanItems(QueryAll(tbl, m.mq, n.nq, params), owner)
    IN  IF m.err # Nil
        THEN Result(Wrap(ErrSelectEntity, m.err), tbl, <<>>, 0, 0, <<>>, "none")
        ELSE IF Failing(fault, "query")
             THEN Result(Wrap(ErrSelectEntity, DriverError), tbl, <<>>, 0, 0,
                         <<"query">>, "none")
             ELSE IF scan.err # Nil
                  THEN Result(scan.err, tbl, <<>>, 0, 0, <<"query">>, "none")
                  ELSE IF Failing(fault, "count")
                       THEN Result(Wrap(ErrSelectEntity, DriverError), tbl, <<>>, 0, 0,
                                   <<"query", "count">>, "none")
                       ELSE Result(Nil, tbl, scan.items, 0,
                                   total(tbl, n.nq, m.mq, params),
                                   <<"query", "count">>, "none")

(***************************************************************************)
(* RetrieveByChannel.                                                      *)
(***************************************************************************)
\* uuid.FromString(channel) succeeds
ValidUUID(channel) == channel \in Channels

\* SELECT id FROM things th INNER JOIN connections conn ON th.id = conn.thing_id
\*   WHERE th.owner = :owner AND conn.channel_id = :channel
Connected(tbl, conns, owner, channel) ==
    {r \in tbl : r.owner = owner /\ <<r.id, channel>> \in conns}

\* the not-connected branch excluding every connected Thing, whatever the channel
ChannelRowsAnyChannel(tbl, conns, owner, channel, connected) ==
    IF connected THEN Connected(tbl, conns, owner, channel)
    ELSE {r \in tbl : r.owner = owner /\ \A c \in conns : c[1] # r.id}

\* the rows either query of RetrieveByChannel selects, before the window
ChannelRows(tbl, conns, owner, channel, connected) ==
    IF connected THEN Connected(tbl, conns, owner, channel)
    ELSE {r \in tbl : r.owner = owner
                      /\ r.id \notin {c.id : c \in Connected(tbl, conns, owner, channel)}}

\* the count query counting the connected Things, whatever connected is
CountByChannelConnected(tbl, conns, owner, channel, connected) ==
    Cardinality(ChannelRows(tbl, conns, owner, channel, TRUE))

\* q: ... ORDER BY th.id LIMIT :limit OFFSET :offset
QueryByChannel(tbl, conns, params, connected) ==
    LimitOffset(OrderByID(ChannelRows(tbl, conns, params.owner, params.channel, connected)),
                params.limit, params.offset)

\* qc: SELECT COUNT(*) ...
CountByChannel(tbl, conns, owner, channel, connected) ==
    Cardinality(ChannelRows(tbl, conns, owner, channel, connected))

\* RetrieveByChannel past the check of the channel: the page query, the scan
\* loop and the count query
ChannelPage(tbl, conns, owner, channel, offset, limit, connected, fault) ==
    LET params == [owner |-> owner, channel |-> channel, limit |-> limit,
                   offset |-> offset]
        scan == ScanItems(QueryByChannel(tbl, conns, params, connected), owner)
    IN  IF Failing(fault, "query")
        THEN Result(Wrap(ErrSelectEntity, DriverError), tbl, <<>>, 0, 0,
                    <<"query">>, "none")
        ELSE IF scan.err # Nil
             THEN Result(scan.err, tbl, <<>>, 0, 0, <<"query">>, "none")
             ELSE IF Failing(fault, "count")
                  THEN Result(Wrap(ErrSelectEntity, DriverError), tbl, <<>>, 0, 0,
                              <<"query", "count">>, "none")
                  ELSE Result(Nil, tbl, scan.items, 0,
                              CountByChannel(tbl, conns, owner, channel, connected),
                              <<"query", "count">>, "none")

\* RetrieveByChannel without the check: the channel goes to the store, whose
\* uuid column rejects it
RetrieveByChannelNoCheck(tbl, conns, owner, channel, offset, limit, connected, fault) ==
    IF ~ValidUUID(channel)
    THEN Result(Wrap(ErrSelectEntity,
                     IF Failing(fault, "query") THEN DriverError ELSE PqError(errInvalid)),
                tbl, <<>>, 0, 0, <<"query">>, "none")
    ELSE ChannelPage(tbl, conns, owner, channel, offset, limit, connected, fault)

RetrieveByChannel(tbl, conns, owner, channel, offset, limit, connected, fault) ==
    IF ~ValidUUID(channel)
    THEN Result(<<ErrNotFound>>, tbl, <<>>, 0, 0, <<>>, "none")
    ELSE ChannelPage(tbl, conns, owner, channel, offset, limit, connected, fault)

(***************************************************************************)
(* The arguments the callers choose from.                                  *)
(***************************************************************************)
NameA == <<"a">>
NameAB == <<"a", "b">>
NameB == <<"b">>

MetaEmpty == Meta({})
MetaEU == Meta({<<"region", "string", "eu">>})
MetaEUN == Meta({<<"n", "int", "1">>, <<"region", "string", "eu">>})
MetaChan == Meta({<<"c", "chan", "">>})

\* name and metadata of a Thing, as a caller writes them
Payloads == {<<NameA, NilMeta>>, <<NameA, MetaEmpty>>, <<NameAB, MetaEUN>>,
             <<NameB, MetaEU>>, <<NameB, MetaChan>>}

\* the Things handed to Save: two of one owner, one of another owner that
\* repeats the ID of one and the Key of the other, one whose ID is not a
\* UUID and one whose metadata has no JSON form
SaveThings ==
    {Thing(1, "o1", NameA, "k1", NilMeta),
     Thing(2, "o1", NameAB, "k2", MetaEUN),
     Thing(2, "o2", NameB, "k1", MetaEU),
     Thing(0, "o1", NameA, "k3", NilMeta),
     Thing(1, "o2", NameB, "k3", MetaChan)}

Batches == UNION {[1..n -> SaveThings] : n \in 1..MaxBatch}

UpdateThings ==
    {Thing(id, o, p[1], "k1", p[2]) : id \in IDs, o \in Owners, p \in Payloads}

NameFilters == {<<>>, NameA}
MetaFilters == {NilMeta, MetaEU, MetaChan}

SaveFaults == {"none", "begin", "exec", "commit"}
ExecFaults == {"none", "exec", "rows"}
RemoveFaults == {"none", "exec"}
QueryFaults == {"none", "query"}

\* the store calls of a listing that may fail: the page query, the count query
ListFaults == {"none", "query", "count"}

(***************************************************************************)
(* State.                                                                  *)
(***************************************************************************)
VARIABLES
    things,       \* the committed rows of the things table
    connections,  \* the connections relation: <<thing_id, channel_id>>
    pre,          \* the things table when the last call began
    last,         \* the last repository call and what it returned
    save,         \* the Save that is between its begin and its return
    held,         \* uncommitted rows of transactions a returned Save left open
    scan          \* the listing that is between its page query and its return

vars == <<things, connections, pre, last, save, held, scan>>

\* no Save is under way
NoSave ==
    [status |-> "none", ths |-> <<>>, done |-> 0, pending |-> {}, shown |-> {},
     base |-> {}, err |-> Nil, calls |-> <<>>, tx |-> "none"]

\* no listing is under way
NoScan ==
    [state |-> "none", op |-> "none", owner |-> "", channel |-> "", limit |-> 0,
     connected |-> FALSE, page |-> <<>>, err |-> Nil, matched |-> {}]

\* a call: its operation, its arguments and its result
Call(op, ths, owner, id, key, channel, offset, limit, name, meta, connected, fault, res) ==
    [op |-> op, ths |-> ths, owner |-> owner, id |-> id, key |-> key,
     channel |-> channel, offset |-> offset, limit |-> limit, name |-> name,
     meta |-> meta, connected |-> connected, fault |-> fault,
     err |-> res.err, out |-> res.out, outID |-> res.id, total |-> res.total,
     calls |-> res.calls, tx |-> res.tx]

NoResult == Result(Nil, {}, <<>>, 0, 0, <<>>, "none")
NoCall(op) ==
    Call(op, <<>>, "", 0, "", "", 0, 0, <<>>, NilMeta, FALSE, "none", NoResult)

\* no call is in progress or waiting to be read
Idle == last.op = "none"

Init ==
    /\ things = {}
    /\ connections = {}
    /\ pre = {}
    /\ last = NoCall("none")
    /\ save = NoSave
    /\ held = {}
    /\ scan = NoScan

DoSave ==
    /\ Idle
    /\ \E ths \in Batches, f \in SaveFaults :
        LET res == Save(things, ths, f)
        IN  /\ things' = res.tbl
            /\ pre' = things
            /\ last' = Call("Save", ths, "", 0, "", "", 0, 0, <<>>, NilMeta, FALSE, f, res)
            /\ UNCHANGED <<connections, save, held, scan>>

DoUpdate ==
    /\ Idle
    /\ \E t \in UpdateThings, f \in ExecFaults :
        LET res == Update(things, t, f)
        IN  /\ things' = res.tbl
            /\ pre' = things
            /\ last' = Call("Update", <<t>>, t.Owner, t.ID, "", "", 0, 0, <<>>, NilMeta,
                            FALSE, f, res)
            /\ UNCHANGED <<connections, save, held, scan>>

DoUpdateKey ==
    /\ Idle
    /\ \E o \in Owners, id \in IDs, k \in KeyArgs, f \in ExecFaults :
        LET res == UpdateKey(things, o, id, k, f)
        IN  /\ things' = res.tbl
            /\ pre' = things
            /\ last' = Call("UpdateKey", <<>>, o, id, k, "", 0, 0, <<>>, NilMeta, FALSE,
                            f, res)
            /\ UNCHANGED <<connections, save, held, scan>>

DoRetrieveByID ==
    /\ Idle
    /\ \E o \in Owners, id \in IDs, f \in QueryFaults :
        LET res == RetrieveByID(things, o, id, f)
        IN  /\ things' = res.tbl
            /\ pre' = things
            /\ last' = Call("RetrieveByID", <<>>, o, id, "", "", 0, 0, <<>>, NilMeta,
                            FALSE, f, res)
            /\ UNCHANGED <<connections, save, held, scan>>

DoRetrieveByKey ==
    /\ Idle
    /\ \E k \in Keys, f \in QueryFaults :
        LET res == RetrieveByKey(things, k, f)
        IN  /\ things' = res.tbl
            /\ pre' = things
            /\ last' = Call("RetrieveByKey", <<>>, "", 0, k, "", 0, 0, <<>>, NilMeta,
                            FALSE, f, res)
            /\ UNCHANGED <<connections, save, held, scan>>

DoRetrieveAll ==
    /\ Idle
    /\ \E o \in Owners, off \in 0..MaxOffset, lim \in 0..MaxLimit,
       n \in NameFilters, m \in MetaFilters :
       \E f \in IF off = 0 /\ lim = MaxLimit THEN ListFaults ELSE {"none"} :
        LET res == RetrieveAll(things, o, off, lim, n, m, f)
        IN  /\ things' = res.tbl
            /\ pre' = things
            /\ last' = Call("RetrieveAll", <<>>, o, 0, "", "", off, lim, n, m, FALSE, f, res)
            /\ UNCHANGED <<connections, save, held, scan>>

DoRetrieveByChannel ==
    /\ Idle
    /\ \E o \in Owners, c \in ChannelArgs, off \in 0..MaxOffset, lim \in 0..MaxLimit,
       conn \in BOOLEAN :
       \E f \in IF off = 0 /\ lim = MaxLimit THEN ListFaults ELSE {"none"} :
        LET res == RetrieveByChannel(things, connections, o, c, off, lim, conn, f)
        IN  /\ things' = res.tbl
            /\ pre' = things
            /\ last' = Call("RetrieveByChannel", <<>>, o, 0, "", c, off, lim, <<>>,
                            NilMeta, conn, f, res)
            /\ UNCHANGED <<connections, save, held, scan>>

DoRemove ==
    /\ Idle
    /\ \E o \in Owners, id \in IDs, f \in RemoveFaults :
        LET res == Remove(things, o, id, f)
        IN  /\ things' = res.tbl
            /\ pre' = things
            /\ last' = Call("Remove", <<>>, o, id, "", "", 0, 0, <<>>, NilMeta, FALSE, f, res)
            /\ UNCHANGED <<connections, save, held, scan>>

\* the channel subsystem connects or disconnects a thing and a channel
Connect ==
    /\ Idle
    /\ \E p \in ConnPairs \ connections :
        /\ connections' = connections \cup {p}
        /\ UNCHANGED <<things, pre, last, save, held, scan>>

Disconnect ==
    /\ Idle
    /\ \E p \in connections :
        /\ connections' = connections \ {p}
        /\ UNCHANGED <<things, pre, last, save, held, scan>>

\* the caller has taken the result of its call; the next call can begin
Return ==
    /\ ~Idle
    /\ last' = NoCall("none")
    /\ pre' = things
    /\ UNCHANGED <<things, connections, save, held, scan>>

Next ==
    \/ DoSave
    \/ DoUpdate
    \/ DoUpdateKey
    \/ DoRetrieveByID
    \/ DoRetrieveByKey
    \/ DoRetrieveAll
    \/ DoRetrieveByChannel
    \/ DoRemove
    \/ Connect
    \/ Disconnect
    \/ Return

\* another client of the store writes a document that is no object into the
\* metadata column of a row; the JSON type of the column accepts it
ForeignWrite ==
    /\ Idle
    /\ \E r \in things :
        /\ r.metadata # JSONArray
        /\ things' = (things \ {r}) \cup {[r EXCEPT !.metadata = JSONArray]}
        /\ UNCHANGED <<connections, pre, last, save, held, scan>>

Spec == Init /\ [][Next]_vars

\* the repository over a store that other clients write to as well
NextShared ==
    \/ Next
    \/ ForeignWrite

SpecShared == Init /\ [][NextShared]_vars

(***************************************************************************)
(* The repository called concurrently.  A Save is taken apart into the     *)
(* store calls it makes, a listing into its page query and its count       *)
(* query; the statements of other callers take effect between them.        *)
(***************************************************************************)
\* the batches of the concurrent Saves: a pair that can be stored, a Thing
\* that takes an ID and a Key of that pair, a pair whose second Thing has no
\* JSON form, and pairs whose second insert the store rejects
ConcBatches ==
    {<<Thing(1, "o1", NameA, "k1", NilMeta), Thing(2, "o1", NameAB, "k2", MetaEUN)>>,
     <<Thing(2, "o2", NameB, "k1", MetaEU)>>,
     <<Thing(2, "o2", NameB, "k1", MetaEU), Thing(1, "o2", NameB, "k3", MetaChan)>>,
     <<Thing(2, "o1", NameAB, "k2", MetaEUN), Thing(0, "o1", NameA, "k3", NilMeta)>>,
     <<Thing(1, "o1", NameA, "k1", NilMeta), Thing(1, "o1", NameA, "k1", NilMeta)>>}

\* tr.db.BeginTxx
SaveBegin ==
    /\ Idle
    /\ save.status = "none"
    /\ \E ths \in ConcBatches :
        save' = [NoSave EXCEPT !.status = "open", !.ths = ths, !.base = things,
                               !.calls = <<"begin">>, !.tx = "open"]
    /\ UNCHANGED <<things, connections, pre, last, held, scan>>

\* one pass of the loop of Save: toDBThing, then the insert in the transaction
SaveInsert ==
    /\ Idle
    /\ save.status = "open"
    /\ save.done < Len(save.ths)
    /\ LET c == toDBThing(save.ths[save.done + 1])
           ins == ExecInsert(things \cup save.pending, c.db)
       IN  IF c.err # Nil
           THEN /\ save' = [save EXCEPT !.status = "returned",
                                        !.err = Wrap(ErrCreateEntity, c.err)]
                /\ UNCHANGED things
           ELSE /\ ~Locked(held, c.db)
                /\ IF ins.err # Nil
                   THEN /\ save' = [save EXCEPT !.status = "returned",
                                                !.err = SaveError(ins.err),
                                                !.pending = {},
                                                !.calls = @ \o <<"exec", "rollback">>,
                                                !.tx = "rolledback"]
                        /\ UNCHANGED things
                   ELSE /\ things' = TxInsert(things, c.db)
                        /\ save' = [save EXCEPT !.done = @ + 1,
                                                !.pending = @ \cup {c.db},
                                                !.shown = @ \cup (things' \ things),
                                                !.calls = @ \o <<"exec">>]
    /\ UNCHANGED <<connections, pre, last, held, scan>>

\* tx.Commit: the rows of the transaction join the committed table together
SaveCommit ==
    /\ Idle
    /\ save.status = "open"
    /\ save.done = Len(save.ths)
    /\ things' = things \cup save.pending
    /\ save' = [save EXCEPT !.status = "returned", !.shown = @ \cup save.pending,
                            !.calls = @ \o <<"commit">>, !.tx = "committed"]
    /\ UNCHANGED <<connections, pre, last, held, scan>>

\* Save returns to its caller; a transaction it has neither committed nor
\* rolled back stays open in the store with the rows it inserted
SaveReturn ==
    /\ save.status = "returned"
    /\ Idle
    /\ last' = Call("Save", save.ths, "", 0, "", "", 0, 0, <<>>, NilMeta, FALSE, "none",
                    Result(save.err, things, IF save.err = Nil THEN save.ths ELSE <<>>,
                           0, 0, save.calls, save.tx))
    /\ pre' = save.base
    /\ held' = IF save.tx = "open" THEN held \cup save.pending ELSE held
    /\ save' = NoSave
    /\ UNCHANGED <<things, connections, scan>>

\* the listing sc (its operation and arguments), run on the store as it is
ListingOf(sc) ==
    IF sc.op = "RetrieveAll"
    THEN RetrieveAll(things, sc.owner, 0, sc.limit, <<>>, NilMeta, "none")
    ELSE RetrieveByChannel(things, connections, sc.owner, sc.channel, 0, sc.limit,
                           sc.connected, "none")

\* the rows of the store as it is that the listing sc matches
MatchingOf(sc) ==
    IF sc.op = "RetrieveAll" THEN {r \in things : r.owner = sc.owner}
    ELSE {r \in things : /\ r.owner = sc.owner
                         /\ (<<r.id, sc.channel>> \in connections) = sc.connected}

\* the page query of a listing and its scan loop
ListPage ==
    /\ Idle
    /\ scan.state = "none"
    /\ \E op \in {"RetrieveAll", "RetrieveByChannel"}, o \in Owners, lim \in 1..MaxLimit,
          conn \in BOOLEAN :
        LET sc == [NoScan EXCEPT !.state = "paged", !.op = op, !.owner = o,
                                 !.channel = IF op = "RetrieveAll" THEN "" ELSE "c1",
                                 !.limit = lim, !.connected = conn]
        IN  /\ op = "RetrieveAll" => ~conn
            /\ scan' = [sc EXCEPT !.page = ListingOf(sc).out, !.err = ListingOf(sc).err,
                                  !.matched = MatchingOf(sc)]
    /\ UNCHANGED <<things, connections, pre, last, save, held>>

\* the count query of the listing, on the store as it is by then, and the
\* return of the page read before with the total read now
ListCount ==
    /\ Idle
    /\ scan.state = "paged"
    /\ LET cnt == ListingOf(scan)
           res == IF scan.err # Nil
                  THEN Result(scan.err, things, <<>>, 0, 0, <<"query">>, "none")
                  ELSE IF cnt.err # Nil THEN cnt
                       ELSE Result(Nil, things, scan.page, 0, cnt.total, cnt.calls, "none")
       IN  last' = Call(scan.op, <<>>, scan.owner, 0, "", scan.channel, 0, scan.limit,
                        <<>>, NilMeta, scan.connected, "none", res)
    /\ pre' = things
    /\ scan' = [scan EXCEPT !.state = "counted"]
    /\ UNCHANGED <<things, connections, save, held>>

\* the caller has taken the page of its listing
ListReturn ==
    /\ ~Idle
    /\ last' = NoCall("none")
    /\ pre' = things
    /\ scan' = IF scan.state = "counted" THEN NoScan ELSE scan
    /\ UNCHANGED <<things, connections, save, held>>

\* a Save between other callers' reads and writes
NextConc ==
    \/ SaveBegin
    \/ SaveInsert
    \/ SaveCommit
    \/ SaveReturn
    \/ DoRetrieveByID
    \/ DoRetrieveByKey
    \/ DoRetrieveAll
    \/ DoRetrieveByChannel
    \/ DoRemove
    \/ Connect
    \/ Disconnect
    \/ Return

SpecConc == Init /\ [][NextConc]_vars

\* a listing between other callers' writes
NextRace ==
    \/ ListPage
    \/ ListCount
    \/ ListReturn
    \/ DoSave
    \/ DoRemove
    \/ Connect
    \/ Disconnect

SpecRace == Init /\ [][NextRace]_vars

(***************************************************************************)
(* Properties.  They are stated on the state in which a call has returned: *)
(* last holds the call, pre the table it started from and things the table *)
(* it left.  A property about what the repository does with a working      *)
(* store is stated for calls whose store calls did not fail                *)
(* (last.fault = "none").                                                  *)
(***************************************************************************)
Returned(op) == last.op = op
Worked(op) == last.op = op /\ last.fault = "none"
OK == last.err = Nil
Failed == last.err # Nil

\* the row a Thing is stored as
RowOf(th) == toDBThing(th).db
BatchRows(ths) == {RowOf(ths[i]) : i \in 1..Len(ths)}

\* C1: Save is all-or-nothing.  When Save returns without error every Thing
\* of the batch is a row of the table and nothing else was added; when it
\* returns an error the table is the table before the call, so no row
\* inserted earlier in the same call is visible; and a failed insert
\* (Conflict, MalformedEntity) has rolled the transaction back.
SaveAllOrNothing ==
    Returned("Save") =>
        /\ OK => /\ BatchRows(last.ths) \subseteq things
                 /\ things = pre \cup BatchRows(last.ths)
                 /\ last.tx = "committed"
        /\ Failed => /\ things = pre
                     /\ \A i \in 1..Len(last.ths) :
                            RowOf(last.ths[i]) \in things => RowOf(last.ths[i]) \in pre
        /\ Kind(last.err) \in {ErrConflict, ErrMalformedEntity} => last.tx = "rolledback"

\* Save(T1, T2) with T2.ID = T1.ID has failed with Conflict after T1 had been
\* inserted, and T1 is not in the table
SaveRolledBack ==
    /\ Returned("Save")
    /\ Len(last.ths) = 2
    /\ last.ths[2].ID = last.ths[1].ID
    /\ Kind(last.err) = ErrConflict
    /\ ~UniqueViolation(pre, RowOf(last.ths[1]))
    /\ WellFormedID(last.ths[1].ID)
    /\ RowOf(last.ths[1]) \notin things
    /\ last.calls = <<"begin", "exec", "exec", "rollback">>

\* a batch of two Things whose IDs and Keys differ and are not in the table
FreshPair(ths, tbl) ==
    /\ Len(ths) = 2
    /\ ths[1].ID # ths[2].ID
    /\ ths[1].Key # ths[2].Key
    /\ \A i \in 1..2 : \A r \in tbl : r.id # ths[i].ID /\ r.key # ths[i].Key

\* a Thing of the data model: its ID is a UUID and its metadata has a JSON form
Storable(th) == WellFormedID(th.ID) /\ \A e \in th.Metadata.kv : Serializable(e)

\* a metadata mapping as JSON carries it: the same keys and values, every
\* number a float64, and an absent mapping an empty one
AsJSON(m) == Meta({<<e[1], IF e[2] = "string" THEN "string" ELSE "float64", e[3]>> : e \in m.kv})

\* RetrieveByID(th.Owner, th.ID) on the current table returns th with the
\* metadata want
ReadsBack(th, want) ==
    LET g == RetrieveByID(things, th.Owner, th.ID, "none")
    IN  /\ g.err = Nil
        /\ g.out = <<Thing(th.ID, th.Owner, th.Name, th.Key, want)>>

\* C2 as stated: Save(T1, T2) of two Things (as the data model has them: a
\* UUID for ID, JSON-like values in Metadata) with distinct IDs and Keys not
\* in the store succeeds and returns its arguments, and RetrieveByID returns
\* each with its ID, Owner, Name, Key and Metadata unchanged (an empty or
\* absent Metadata as the empty mapping).
RoundTripUnchanged ==
    (Worked("Save") /\ FreshPair(last.ths, pre) /\ \A i \in 1..2 : Storable(last.ths[i])) =>
        /\ OK
        /\ last.out = last.ths
        /\ \A i \in 1..2 :
               ReadsBack(last.ths[i],
                         IF LenMeta(last.ths[i].Metadata) = 0 THEN MetaEmpty
                         ELSE last.ths[i].Metadata)

\* C2, amended: Save(T1, T2) of two such Things with distinct IDs and Keys
\* not in the store succeeds and returns its arguments, and RetrieveByID
\* returns each with its ID, Owner, Name and Key unchanged and its Metadata
\* as JSON carries it: the same keys, strings unchanged, every number as a
\* float64 whatever its type was, an empty or absent mapping as the empty
\* mapping.
RoundTrip ==
    (Worked("Save") /\ FreshPair(last.ths, pre) /\ \A i \in 1..2 : Storable(last.ths[i])) =>
        /\ OK
        /\ last.out = last.ths
        /\ \A i \in 1..2 : ReadsBack(last.ths[i], AsJSON(last.ths[i].Metadata))

\* a fresh pair was saved; one Thing has no metadata, the other an integer in it
RoundTripDone ==
    /\ Worked("Save")
    /\ FreshPair(last.ths, pre)
    /\ OK
    /\ \E i \in 1..2 : LenMeta(last.ths[i].Metadata) = 0
    /\ \E i \in 1..2 : \E e \in last.ths[i].Metadata.kv : e[2] = "int"

\* C3: owner isolation.  A read called with owner O returns only Things
\* stored in rows whose owner is O; Update, UpdateKey and Remove called with
\* owner O change or delete only rows whose owner is O; RetrieveByKey, which
\* takes no owner, finds a key whoever owns the Thing.
OwnerIsolation ==
    /\ last.op \in {"RetrieveByID", "RetrieveAll", "RetrieveByChannel"} =>
           \A i \in 1..Len(last.out) :
               /\ last.out[i].Owner = last.owner
               /\ \E r \in things : /\ r.owner = last.owner
                                    /\ toThing(r).th = last.out[i]
    /\ last.op \in {"Update", "UpdateKey", "Remove"} =>
           \A r \in (pre \ things) \cup (things \ pre) : r.owner = last.owner
    /\ Worked("RetrieveByKey") => (OK <=> \E r \in things : r.key = last.key)

\* Remove was called by an owner on the ID of another owner's Thing, and the
\* Thing is still there
CrossOwnerRemove ==
    /\ Worked("Remove")
    /\ OK
    /\ \E r \in things : r.id = last.id /\ r.owner # last.owner

\* the row (owner, id) of the last call exists and another row holds key
KeyOfAnother(tbl, owner, id, key) ==
    \E r \in tbl : /\ r.owner = owner /\ r.id = id
                   /\ \E o \in tbl : o # r /\ o.key = key

\* C4: UpdateKey(owner, id, k), where the Thing (owner, id) exists and k is
\* the Key of another Thing, fails with Conflict and leaves every Key (the
\* whole table) unchanged.
UpdateKeyConflict ==
    (Worked("UpdateKey") /\ KeyOfAnother(pre, last.owner, last.id, last.key)) =>
        /\ Kind(last.err) = ErrConflict
        /\ things = pre

\* UpdateKey to the Key of another Thing has failed with Conflict
UpdateKeyRefused ==
    /\ Worked("UpdateKey")
    /\ KeyOfAnother(pre, last.owner, last.id, last.key)
    /\ Kind(last.err) = ErrConflict

\* Remove(owner, id) has returned no error; if no row matched, the table is
\* unchanged; a further Remove(owner, id) returns no error and changes
\* nothing, and RetrieveByID(owner, id) fails with NotFound
RemoveIdempotentHere ==
    /\ OK
    /\ (\A r \in pre : ~(r.owner = last.owner /\ r.id = last.id)) => things = pre
    /\ LET again == Remove(things, last.owner, last.id, "none")
       IN  again.err = Nil /\ again.tbl = things
    /\ Kind(RetrieveByID(things, last.owner, last.id, "none").err) = ErrNotFound

\* C5 as stated: Remove is idempotent for every (owner, id), and every call
\* returns no error.
RemoveIdempotentAnyID ==
    Worked("Remove") => RemoveIdempotentHere

\* C5, amended: for a well-formed id, Remove(owner, id) returns no error
\* whether or not a row matches, leaves the table unchanged when none does,
\* and once or several times in a row leaves the same table, in which
\* RetrieveByID(owner, id) fails with NotFound.
RemoveIdempotent ==
    (Worked("Remove") /\ WellFormedID(last.id)) => RemoveIdempotentHere

\* Remove of a Thing that is not there (never stored, or another owner's)
\* has returned no error
RemoveOfAbsent ==
    /\ Worked("Remove")
    /\ WellFormedID(last.id)
    /\ \A r \in pre : ~(r.owner = last.owner /\ r.id = last.id)
    /\ pre # {}
    /\ OK

\* the Things a set of rows reads as
ThingsOf(rows) == {toThing(r).th : r \in rows}
Range(s) == {s[i] : i \in 1..Len(s)}
\* a sequence of Things in ascending order of ID, none twice
Ascending(s) == \A i, j \in 1..Len(s) : i < j => s[i].ID < s[j].ID

\* the rows of owner with, or without, a connection to channel
ExpectedByChannel(owner, channel, connected) ==
    {r \in things : /\ r.owner = owner
                    /\ (<<r.id, channel>> \in connections) = connected}

\* C6: RetrieveByChannel(owner, C, 0, limit, connected) with a well-formed C
\* and limit at least the number of matches returns exactly the Things of
\* owner that have a connection to C (connected) or have none (not connected,
\* Things connected only to other channels included), and Total is the size
\* of that set.
ChannelMembership ==
    LET want == ExpectedByChannel(last.owner, last.channel, last.connected)
    IN  (Worked("RetrieveByChannel") /\ ValidUUID(last.channel)
         /\ last.offset = 0 /\ last.limit >= Cardinality(want)) =>
            /\ OK
            /\ Range(last.out) = ThingsOf(want)
            /\ Len(last.out) = Cardinality(want)
            /\ last.total = Cardinality(want)

\* a not-connected listing has returned a Thing that is connected to another
\* channel, and has left out a Thing of the owner that is connected to C
NotConnectedListed ==
    /\ Worked("RetrieveByChannel")
    /\ ~last.connected
    /\ last.offset = 0
    /\ OK
    /\ \E i \in 1..Len(last.out) :
           \E c \in connections : c[1] = last.out[i].ID /\ c[2] # last.channel
    /\ \E r \in things : /\ r.owner = last.owner
                         /\ <<r.id, last.channel>> \in connections
                         /\ toThing(r).th \notin Range(last.out)

\* the stored document holds every entry of the filter mapping
MetaContains(doc, tm) ==
    \A e \in tm.kv :
        \E j \in 1..Len(doc.members) :
            /\ doc.members[j][1] = e[1]
            /\ doc.members[j][3] = e[3]
            /\ (doc.members[j][2] = "string") = (e[2] = "string")

\* the rows of owner that satisfy the name filter and the metadata filter
ExpectedAll(owner, name, tm) ==
    {r \in things : /\ r.owner = owner
                    /\ (name = <<>> \/ NameMatches(r.name, name))
                    /\ MetaContains(r.metadata, tm)}

\* the rows the last listing matches
Expected ==
    IF last.op = "RetrieveAll" THEN ExpectedAll(last.owner, last.name, last.meta)
    ELSE ExpectedByChannel(last.owner, last.channel, last.connected)

\* the last listing again, on the same store, at another offset
PageAt(offset) ==
    IF last.op = "RetrieveAll"
    THEN RetrieveAll(things, last.owner, offset, last.limit, last.name, last.meta, "none")
    ELSE RetrieveByChannel(things, connections, last.owner, last.channel, offset,
                           last.limit, last.connected, "none")

\* the pages at offset k*L, (k+1)*L, ... up to the one past the last row
RECURSIVE PagesFrom(_)
PagesFrom(k) ==
    IF k > Cardinality(Expected) THEN <<>>
    ELSE PageAt(k * last.limit).out \o PagesFrom(k + 1)

\* a listing with limit > 0 has returned without error
Listed ==
    /\ last.op \in {"RetrieveAll", "RetrieveByChannel"}
    /\ last.fault = "none"
    /\ OK
    /\ last.limit > 0
    /\ last.op = "RetrieveByChannel" => ValidUUID(last.channel)

\* C7: pagination.  On an unchanging store, for a listing with N matching
\* rows and limit L > 0, the pages at offset 0, L, 2L, ... put end to end are
\* the matching Things in ascending order of ID, none twice and none left
\* out; every page has at most L Things and Total = N.
Pagination ==
    Listed =>
        LET all == PagesFrom(0)
            n == Cardinality(Expected)
        IN  /\ Ascending(all)
            /\ Range(all) = ThingsOf(Expected)
            /\ Len(all) = n
            /\ \A k \in 0..n : /\ PageAt(k * last.limit).err = Nil
                               /\ Len(PageAt(k * last.limit).out) <= last.limit
                               /\ PageAt(k * last.limit).total = n
            /\ last.out = PageAt(last.offset).out
            /\ Len(last.out) <= last.limit
            /\ last.total = n

\* a listing of two matching rows was read with limit 1: the returned page
\* is the second one
SecondPage ==
    /\ Listed
    /\ last.limit = 1
    /\ last.offset = 1
    /\ Cardinality(Expected) = 2
    /\ Len(last.out) = 1
    /\ last.out[1].ID = 2

\* C8: RetrieveByChannel with a channel that is not a well-formed identifier
\* fails with NotFound, whatever the owner, offset, limit and connected, and
\* issues no store query (so no failure of the store can change the result).
MalformedChannel ==
    (Returned("RetrieveByChannel") /\ ~ValidUUID(last.channel)) =>
        /\ last.err = <<ErrNotFound>>
        /\ last.calls = <<>>
        /\ last.out = <<>>

\* RetrieveByChannel was called with a malformed channel by an owner who has
\* Things
MalformedChannelSeen ==
    /\ Returned("RetrieveByChannel")
    /\ ~ValidUUID(last.channel)
    /\ last.connected
    /\ last.limit > 0
    /\ \E r \in things : r.owner = last.owner

\* C9: the filters of RetrieveAll compose conjunctively, in the page query
\* and in the count query alike.  The returned Things are the window
\* (offset, limit) of the Things of owner that satisfy the name filter and
\* whose stored metadata contains the metadata filter, in order of ID; an
\* empty name or an empty mapping excludes nothing; Total is the number of
\* rows that satisfy the same conjunction.
FiltersCompose ==
    (Worked("RetrieveAll") /\ \A e \in last.meta.kv : Serializable(e)) =>
        LET want == ExpectedAll(last.owner, last.name, last.meta)
            page == LimitOffset(OrderByID(want), last.limit, last.offset)
        IN  /\ OK
            /\ last.out = [i \in 1..Len(page) |-> toThing(page[i]).th]
            /\ last.total = Cardinality(want)
            /\ (last.name = <<>> /\ LenMeta(last.meta) = 0) =>
                   want = {r \in things : r.owner = last.owner}

\* both filters were given; a row of the owner that matches the name filter
\* but not the metadata filter was left out, and a row that matches both
\* was returned
BothFilters ==
    /\ Worked("RetrieveAll")
    /\ last.name # <<>>
    /\ LenMeta(last.meta) > 0
    /\ OK
    /\ Len(last.out) = 1
    /\ last.total = 1
    /\ \E r \in things : /\ r.owner = last.owner
                         /\ NameMatches(r.name, last.name)
                         /\ toThing(r).th \notin Range(last.out)

\* RetrieveByKey(key) on the current table
ByKey(key) == RetrieveByKey(things, key, "none")

\* C10: RetrieveByKey(key) returns the ID of the Thing whose Key is key,
\* whatever its Owner, and fails with NotFound when no Thing has that Key;
\* after a successful UpdateKey(owner, id, k2) of a Thing whose Key was
\* k1 # k2, RetrieveByKey(k2) returns id and RetrieveByKey(k1) fails with
\* NotFound; after a Remove(owner, id) that deleted a Thing, RetrieveByKey of
\* its Key fails with NotFound.
KeyLookup ==
    /\ Worked("RetrieveByKey") =>
           /\ \A r \in things : r.key = last.key => OK /\ last.outID = r.id
           /\ (\A r \in things : r.key # last.key) => Kind(last.err) = ErrNotFound
    /\ (Worked("UpdateKey") /\ OK) =>
           \A r \in pre :
               (r.owner = last.owner /\ r.id = last.id /\ r.key # last.key) =>
                   /\ ByKey(last.key).err = Nil
                   /\ ByKey(last.key).id = last.id
                   /\ Kind(ByKey(r.key).err) = ErrNotFound
    /\ (Worked("Remove") /\ OK) =>
           \A r \in pre :
               (r.owner = last.owner /\ r.id = last.id) =>
                   Kind(ByKey(r.key).err) = ErrNotFound

\* a key was rotated: UpdateKey has replaced k1 by k2 on a Thing, while
\* another owner's Thing is in the table
KeyRotated ==
    /\ Worked("UpdateKey")
    /\ OK
    /\ \E r \in pre : r.owner = last.owner /\ r.id = last.id /\ r.key # last.key
    /\ \E r \in things : r.owner # last.owner

\* the (owner, id) pair of the last call matches no row of the table the call
\* began on: the id is not there, or is there under another owner
NoMatch == \A r \in pre : ~(r.owner = last.owner /\ r.id = last.id)

\* the last call is one of the operations that address a single row
SingleRowCall(ops) == last.op \in ops /\ last.fault = "none"

\* the statement of the last call ran in the store without error
StatementRan == last.calls = <<"exec", "rows">>

\* what Update, UpdateKey and RetrieveByID return for a pair that matches no
\* row, and what Update and UpdateKey return for one that does
NotFoundOrDone ==
    /\ (SingleRowCall({"Update", "UpdateKey", "RetrieveByID"}) /\ NoMatch) =>
           /\ Kind(last.err) = ErrNotFound
           /\ things = pre
    /\ (SingleRowCall({"Update", "UpdateKey"}) /\ ~NoMatch /\ StatementRan) => OK

Addressable ==
    /\ WellFormedID(last.id)
    /\ last.op = "Update" => \A e \in last.ths[1].Metadata.kv : Serializable(e)

Unique(tbl) == \A r1, r2 \in tbl : r1 # r2 => r1.id # r2.id /\ r1.key # r2.key

\* a batch of Things the store takes one by one, of which one repeats the ID
\* or the Key of a row of the table or of a Thing before it in the batch
WouldBreak(ths, tbl) ==
    /\ \A i \in 1..Len(ths) : Storable(ths[i])
    /\ \E i \in 1..Len(ths) :
           \/ UniqueViolation(tbl, RowOf(ths[i]))
           \/ \E j \in 1..(i - 1) : ths[j].ID = ths[i].ID \/ ths[j].Key = ths[i].Key

StoreCallFailed ==
    /\ last.fault # "none"
    /\ \E i \in 1..Len(last.calls) : last.calls[i] = last.fault

\* the error of the last call wraps the error the store reported
StemsFromStoreError ==
    /\ Len(last.err) >= 2
    /\ SubSeq(last.err, 2, Len(last.err)) = DriverError

\* the kinds for a failure of the store that has no kind of its own
GenericKinds == {ErrCreateEntity, ErrUpdateEntity, ErrSelectEntity, ErrRemoveEntity}

\* C13: no operation silently discards an error.  Whenever a store call made
\* inside a repository operation (begin, exec, affected-row count, query,
\* commit) reports a failure, the operation returns a failure that wraps that
\* store error, never success and never a kind that describes another
\* condition.
NoErrorDiscarded ==
    StoreCallFailed =>
        /\ Failed
        /\ StemsFromStoreError
        /\ Kind(last.err) \in GenericKinds

\* the kinds a repository failure is documented to have
Taxonomy ==
    {ErrMalformedEntity, ErrConflict, ErrNotFound, ErrCreateEntity, ErrUpdateEntity,
     ErrSelectEntity, ErrRemoveEntity}

\* C14: closed error taxonomy.  Every failure a repository operation returns
\* has as its kind one of MalformedEntity, Conflict, NotFound, CreateEntity,
\* UpdateEntity, SelectEntity, RemoveEntity; every failure of RetrieveAll is
\* of kind SelectEntity, a failure to decode the metadata of a stored row
\* included.
ClosedTaxonomy ==
    /\ Failed => Kind(last.err) \in Taxonomy
    /\ (Returned("RetrieveAll") /\ Failed) => Kind(last.err) = ErrSelectEntity

\* the kinds an error carries, outermost first or not
KindsOf(err) == {err[i] : i \in 1..Len(err)} \cap (Taxonomy \cup {ErrViewEntity})

\* the one mapping from a store error to a kind; generic is the kind of the
\* operation for an error that has no kind of its own
Classified(cause, generic) ==
    IF IsPqError(cause) /\ PqCodeName(cause) \in {errInvalid, errTruncation}
    THEN ErrMalformedEntity
    ELSE IF IsPqError(cause) /\ PqCodeName(cause) = errDuplicate THEN ErrConflict
         ELSE IF IsPqError(cause) /\ PqCodeName(cause) = errFK THEN ErrNotFound
              ELSE generic

\* C15: the classification of store errors is one fixed mapping in Save,
\* Update and UpdateKey: invalid encoding or truncation gives MalformedEntity,
\* a uniqueness violation Conflict, a foreign-key violation NotFound, any
\* other store error the generic kind of the operation (CreateEntity,
\* UpdateEntity); a metadata encode failure gives MalformedEntity; and each
\* failure carries exactly one of these kinds.
WriteClassification ==
    (last.op \in {"Save", "Update", "UpdateKey"} /\ Failed) =>
        LET cause == Tail(last.err)
            generic == IF last.op = "Save" THEN ErrCreateEntity ELSE ErrUpdateEntity
        IN  /\ Cardinality(KindsOf(last.err)) = 1
            /\ (IsPqError(cause) \/ cause = DriverError) =>
                   Kind(last.err) = Classified(cause, generic)
            /\ last.err[Len(last.err)] = "json" => Kind(last.err) = ErrMalformedEntity

\* C16: frame of the mutators.  A successful Update(thing) changes only the
\* Name and Metadata of the row (thing.Owner, thing.ID): the row keeps its
\* ID, Owner and Key, whatever thing.Key is, and every other row is
\* unchanged.  A successful UpdateKey(owner, id, key) changes only the Key
\* of the row (owner, id).  Neither adds or removes a row, successful or not.
MutatorFrame ==
    /\ (Returned("Update") /\ OK) =>
           \E r \in pre :
               /\ r.owner = last.owner /\ r.id = last.id
               /\ things = (pre \ {r}) \cup
                      {[r EXCEPT !.name = last.ths[1].Name,
                                 !.metadata = RowOf(last.ths[1]).metadata]}
    /\ (Returned("UpdateKey") /\ OK) =>
           \E r \in pre :
               /\ r.owner = last.owner /\ r.id = last.id
               /\ things = (pre \ {r}) \cup {[r EXCEPT !.key = last.key]}
    /\ last.op \in {"Update", "UpdateKey"} =>
           {<<r.id, r.owner>> : r \in things} = {<<r.id, r.owner>> : r \in pre}

\* an Update has succeeded with a Thing whose Key is not the stored Key and
\* whose Name is not the stored Name, while the table holds another row
UpdateWithOtherKey ==
    /\ Returned("Update")
    /\ OK
    /\ \E r \in pre : /\ r.owner = last.owner /\ r.id = last.id
                      /\ r.key # last.ths[1].Key
                      /\ r.name # last.ths[1].Name
    /\ Cardinality(pre) = 2

\* the owner on whose behalf the last call was made; a Save is made for an
\* owner when every Thing of its batch is that owner's
Caller == IF last.op = "Save" THEN last.ths[1].Owner ELSE last.owner
HasCaller ==
    /\ last.op \notin {"none", "RetrieveByKey"}
    /\ last.op = "Save" => \A i \in 1..Len(last.ths) : last.ths[i].Owner = Caller

\* the last call made again, with the same arguments and the same store
\* failure, on another things table
Replay(tbl) ==
    CASE last.op = "Save" -> Save(tbl, last.ths, last.fault)
      [] last.op = "Update" -> Update(tbl, last.ths[1], last.fault)
      [] last.op = "UpdateKey" -> UpdateKey(tbl, last.owner, last.id, last.key, last.fault)
      [] last.op = "RetrieveByID" -> RetrieveByID(tbl, last.owner, last.id, last.fault)
      [] last.op = "RetrieveAll" ->
             RetrieveAll(tbl, last.owner, last.offset, last.limit, last.name, last.meta,
                         last.fault)
      [] last.op = "RetrieveByChannel" ->
             RetrieveByChannel(tbl, connections, last.owner, last.channel, last.offset,
                               last.limit, last.connected, last.fault)
      [] last.op = "Remove" -> Remove(tbl, last.owner, last.id, last.fault)

\* the table with the Things of every other owner taken away
OwnRows(tbl, owner) == {r \in tbl : r.owner = owner}

\* the last call returned what it returns when no other owner has a Thing
SameAsAlone ==
    LET alone == Replay(OwnRows(pre, Caller))
    IN  /\ last.out = alone.out
        /\ last.total = alone.total
        /\ Kind(last.err) = Kind(alone.err)

\* C19 as stated: every operation other than RetrieveByKey, called for an
\* owner O, returns the same result and the same error kind in any two
\* stores that agree on the Things of O (here: the store it ran on and that
\* store without the Things of other owners).
CrossOwnerAnyOperation == HasCaller => SameAsAlone

\* the last call is a Save or an UpdateKey that names an ID or a Key which a
\* Thing of another owner holds
NamesForeignIDOrKey ==
    \/ /\ last.op = "Save"
       /\ \E i \in 1..Len(last.ths) :
              \E r \in pre : /\ r.owner # Caller
                             /\ (r.id = last.ths[i].ID \/ r.key = last.ths[i].Key)
    \/ /\ last.op = "UpdateKey"
       /\ \E r \in pre : r.owner # Caller /\ r.key = last.key

\* C19, amended: Update, RetrieveByID, RetrieveAll, RetrieveByChannel and
\* Remove called for an owner O return the same result and error kind
\* whatever Things other owners have; Save of Things of O and UpdateKey do
\* so as long as they name no ID and no Key that a Thing of another owner
\* holds, and where their result does depend on another owner's Thing it is
\* a failure with Conflict.
CrossOwnerIndistinguishable ==
    HasCaller =>
        /\ last.op \in {"Update", "RetrieveByID", "RetrieveAll", "RetrieveByChannel",
                        "Remove"} => SameAsAlone
        /\ ~NamesForeignIDOrKey => SameAsAlone
        /\ ~SameAsAlone => Kind(last.err) = ErrConflict

\* RetrieveByID was called by an owner with the ID of another owner's Thing
\* and has failed with NotFound, as for an ID nobody holds
ForeignThingNotFound ==
    /\ Worked("RetrieveByID")
    /\ \E r \in pre : r.id = last.id /\ r.owner # last.owner
    /\ Kind(last.err) = ErrNotFound

\* a Save of two or more Things is between its begin and its return
BatchUnderWay == save.status # "none" /\ Len(save.ths) >= 2

\* a read has returned
ReadReturned ==
    last.op \in {"RetrieveByID", "RetrieveByKey", "RetrieveAll", "RetrieveByChannel"}

\* the last read has returned the Thing of row r
ReadFound(r) ==
    /\ OK
    /\ IF last.op = "RetrieveByKey" THEN last.key = r.key /\ last.outID = r.id
       ELSE \E i \in 1..Len(last.out) :
                last.out[i].ID = r.id /\ last.out[i].Owner = r.owner

\* C17: all-or-nothing visibility under concurrency.  While a Save of two
\* or more Things runs between the reads and writes of other callers, the
\* rows of the batch it has added to the committed table, the one every read
\* is answered from, are none of them before the commit and after a
\* rollback, and all of them after the commit; no read returns a Thing that
\* the transaction has inserted and not committed.
VisibleAllOrNothing ==
    BatchUnderWay =>
        /\ save.shown \in {{}, BatchRows(save.ths)}
        /\ save.tx # "committed" => save.shown = {}
        /\ save.tx = "committed" => save.shown = BatchRows(save.ths)
        /\ (ReadReturned /\ save.tx # "committed") =>
               \A r \in save.pending : ~ReadFound(r)

\* a RetrieveByID of a Thing that the Save under way has inserted and not
\* committed, the second of its batch included, has failed with NotFound
ReadDuringSave ==
    /\ BatchUnderWay
    /\ save.tx = "open"
    /\ save.done = 2
    /\ Worked("RetrieveByID")
    /\ \E r \in save.pending : r.id = last.id /\ r.owner = last.owner
    /\ Kind(last.err) = ErrNotFound

\* a listing taken apart into its two reads has returned a page
PageReturned ==
    /\ last.op \in {"RetrieveAll", "RetrieveByChannel"}
    /\ scan.state = "counted"
    /\ OK

\* C18: the listing race.  The page query and the count query of RetrieveAll
\* and of RetrieveByChannel are two reads of the store.  When no write has
\* changed the matching rows between them, Total is the number of rows that
\* matched when the page was read and the page holds no more Things than
\* Total; a Save or Remove of a matching Thing committed between the two
\* reads can make Total differ from that number.
ListingTotal ==
    /\ PageReturned => last.out = scan.page
    /\ (PageReturned /\ MatchingOf(scan) = scan.matched) =>
           /\ last.total = Cardinality(scan.matched)
           /\ Len(last.out) <= last.total
           /\ Range(last.out) \subseteq ThingsOf(scan.matched)

\* a Remove committed between the two reads of a listing: the page returned
\* holds more Things than Total
PageLargerThanTotal ==
    /\ PageReturned
    /\ Len(last.out) > last.total
    /\ last.total # Cardinality(scan.matched)

\* C20: transaction closure.  Every transaction that Save begins is finished,
\* by commit or by rollback, before Save returns, on every return path; no
\* Save leaves a transaction open that holds uncommitted rows which could
\* block a later Save or UpdateKey.
TransactionClosure ==
    /\ Returned("Save") => last.tx \in {"none", "committed", "rolledback", "aborted"}
    /\ held = {}

====
